---- MODULE Spec2Model ----
(***************************************************************************)
(* Model of erdtree's traversal-to-tree pipeline (src/render/tree/mod.rs): *)
(* the Walker side and the Collector thread of Tree::traverse joined by an *)
(* mpsc channel, followed by assemble_tree, prune_directories and          *)
(* filter_directories on the indextree arena.                              *)
(***************************************************************************)
EXTENDS Integers, Sequences, FiniteSets, TLC

(* ---------------------------------------------------------------------- *)
(* Bounds                                                                 *)
(* ---------------------------------------------------------------------- *)

\* Largest number of filesystem objects one walk visits.
MaxEntries == 4

\* Largest walk on which whole runs are followed to their end.
MaxFairEntries == 3

(* ---------------------------------------------------------------------- *)
(* Option values                                                          *)
(* ---------------------------------------------------------------------- *)

None == <<>>

Some(x) == <<x>>

IsSome(o) == o # <<>>

Unwrap(o) == o[1]

(* ---------------------------------------------------------------------- *)
(* Entry descriptors (node::Node as built by the visitor)                 *)
(* ---------------------------------------------------------------------- *)

\* Node::parent_path: Path::parent of the entry's path, None for a path that
\* ends in the filesystem root.
parent_path(node) ==
    IF node.path = <<>> THEN None
    ELSE Some(SubSeq(node.path, 1, Len(node.path) - 1))

Dir(p, ino) ==
    [path |-> p, depth |-> Len(p) - 1, is_dir |-> TRUE,
     inode |-> Some([ino |-> ino, nlink |-> 2]), file_size |-> None]

File(p, ino, nlink, bytes) ==
    [path |-> p, depth |-> Len(p) - 1, is_dir |-> FALSE,
     inode |-> Some([ino |-> ino, nlink |-> nlink]), file_size |-> Some(bytes)]

RootDir == Dir(<<"a">>, 1)

\* A walk started on a regular file: its only entry has depth 0 and is no directory.
RootFile == File(<<"f">>, 8, 1, 1)

\* An entry whose path has no parent component.
Orphan ==
    [path |-> <<>>, depth |-> 1, is_dir |-> FALSE,
     inode |-> Some([ino |-> 9, nlink |-> 1]), file_size |-> Some(1)]

\* /a/p and /a/d/q are two names of one inode.
Universe ==
    { RootDir,
      File(<<"a", "x">>, 2, 1, 1),
      Dir(<<"a", "d">>, 3),
      File(<<"a", "d", "y">>, 4, 1, 1),
      Dir(<<"a", "d", "e">>, 5),
      File(<<"a", "p">>, 6, 2, 2),
      File(<<"a", "d", "q">>, 6, 2, 2),
      File(<<"a", "z">>, 7, 1, 0),
      Dir(<<"a", "g">>, 10),
      RootFile,
      Orphan }

\* The directory trees a walk can visit: nothing (root vanished), a lone file,
\* or the root directory with entries whose parent directory is visited too.
WellFormed(S) ==
    \/ S = {}
    \/ S = {RootFile}
    \/ /\ RootDir \in S
       /\ RootFile \notin S
       /\ \A n \in S \ {RootDir, Orphan} :
            \E d \in S : d.is_dir /\ Some(d.path) = parent_path(n)

Trees == { S \in SUBSET Universe : Cardinality(S) <= MaxEntries /\ WellFormed(S) }

\* The configured maximum display depths: unset, or one level below the root.
Levels == {None, Some(1)}

Contexts ==
    [prune : BOOLEAN, dirs_only : BOOLEAN, sort : {"none", "size"}, level : Levels]

\* usize::MAX, held to the largest integer the checker represents.
UsizeMax == 2147483647

\* Tree::level: the maximum depth to display.
level(c) == IF IsSome(c.level) THEN Unwrap(c.level) ELSE UsizeMax

(* ---------------------------------------------------------------------- *)
(* indextree arena                                                        *)
(* ---------------------------------------------------------------------- *)

\* Arena::new_node: the new node has no parent and no children; its id is the
\* next index.
new_node(tree, node) ==
    Append(tree, [path |-> node.path, depth |-> node.depth, is_dir |-> node.is_dir,
                  inode |-> node.inode, file_size |-> node.file_size,
                  parent |-> None, children |-> <<>>, removed |-> FALSE])

Without(s, x) == SelectSeq(s, LAMBDA y : y # x)

\* detach that fills the gap with the last sibling.
detach_swap(tree, id) ==
    IF tree[id].parent = None THEN tree
    ELSE LET p == Unwrap(tree[id].parent)
             s == tree[p].children
             k == CHOOSE i \in 1..Len(s) : s[i] = id
             moved == IF k = Len(s) THEN SubSeq(s, 1, Len(s) - 1)
                      ELSE [i \in 1..(Len(s) - 1) |-> IF i = k THEN s[Len(s)] ELSE s[i]]
         IN [tree EXCEPT ![p].children = moved, ![id].parent = None]

\* NodeId::detach: unlink the node from its parent and siblings, keep its children.
detach(tree, id) ==
    IF tree[id].parent = None THEN tree
    ELSE LET p == Unwrap(tree[id].parent)
         IN [tree EXCEPT ![p].children = Without(@, id), ![id].parent = None]

\* NodeId::append: make child the last child of parent.
append(tree, parent, child) ==
    LET t == detach(tree, child)
    IN [t EXCEPT ![parent].children = Append(@, child), ![child].parent = Some(parent)]

RECURSIVE descendants(_, _)
RECURSIVE descendants_of(_, _, _)
\* NodeId::descendants: the node and its descendants in pre-order.
descendants(tree, id) == <<id>> \o descendants_of(tree, tree[id].children, 1)

descendants_of(tree, ids, i) ==
    IF i > Len(ids) THEN <<>>
    ELSE descendants(tree, ids[i]) \o descendants_of(tree, ids, i + 1)

children(tree, id) == tree[id].children

Range(s) == { s[i] : i \in 1..Len(s) }

\* NodeId::remove_subtree: unlink the node and mark it and its descendants removed.
remove_subtree(tree, id) ==
    LET gone == Range(descendants(tree, id))
        t == detach(tree, id)
    IN [n \in DOMAIN t |->
          IF n \in gone THEN [t[n] EXCEPT !.removed = TRUE, !.parent = None, !.children = <<>>]
          ELSE t[n]]

(* ---------------------------------------------------------------------- *)
(* Sorting                                                                *)
(* ---------------------------------------------------------------------- *)

bytes_or_zero(n) == IF IsSome(n.file_size) THEN Unwrap(n.file_size) ELSE 0

\* node::cmp::comparator: None when no sort is configured, else an ordering of
\* two nodes (-1 less, 0 equal, 1 greater); by size, largest first.
comparator(ctx) == IF ctx.sort = "none" THEN None ELSE Some(ctx.sort)

func(a, b) ==
    IF bytes_or_zero(b) < bytes_or_zero(a) THEN -1
    ELSE IF bytes_or_zero(b) > bytes_or_zero(a) THEN 1
    ELSE 0

RECURSIVE insert_sorted_unstable(_, _, _)
\* Insertion that puts id before the first element that is not less than it.
insert_sorted_unstable(tree, sorted, id) ==
    IF sorted = <<>> THEN <<id>>
    ELSE IF func(tree[id], tree[Head(sorted)]) <= 0 THEN <<id>> \o sorted
    ELSE <<Head(sorted)>> \o insert_sorted_unstable(tree, Tail(sorted), id)

RECURSIVE insert_sorted(_, _, _)
\* Put id before the first element that is strictly greater than it.
insert_sorted(tree, sorted, id) ==
    IF sorted = <<>> THEN <<id>>
    ELSE IF func(tree[id], tree[Head(sorted)]) < 0 THEN <<id>> \o sorted
    ELSE <<Head(sorted)>> \o insert_sorted(tree, Tail(sorted), id)

RECURSIVE sort_from(_, _, _, _)
sort_from(tree, ids, i, sorted) ==
    IF i > Len(ids) THEN sorted
    ELSE sort_from(tree, ids, i + 1, insert_sorted(tree, sorted, ids[i]))

\* slice::sort_by with the comparator applied to the arena nodes: a stable sort.
sort_by(tree, ids) == sort_from(tree, ids, 1, <<>>)

(* ---------------------------------------------------------------------- *)
(* Tree::assemble_tree                                                    *)
(* ---------------------------------------------------------------------- *)

\* HashMap::remove
remove_key(branches, k) == [p \in DOMAIN branches \ {k} |-> branches[p]]

\* The order in which the finished child list is computed from the pending list.
order_children(tree, ctx, ids) ==
    IF IsSome(comparator(ctx)) THEN sort_by(tree, ids) ELSE ids

RECURSIVE append_all(_, _, _, _)
append_all(tree, parent, ids, i) ==
    IF i > Len(ids) THEN tree
    ELSE append_all(append(tree, parent, ids[i]), parent, ids, i + 1)

\* The size a child contributes to its directory's total.
child_bytes(tree, id) == bytes_or_zero(tree[id])

RECURSIVE assemble_tree(_, _, _)
RECURSIVE assemble_children(_, _, _, _, _)
RECURSIVE assemble_children_to_level(_, _, _, _, _)
\* st = [tree, branches, panicked]; panicked records an unwrap of a missing
\* pending-children entry.
assemble_tree(st, current_node_id, ctx) ==
    IF st.panicked THEN st
    ELSE IF st.tree[current_node_id].path \notin DOMAIN st.branches
    THEN [st EXCEPT !.panicked = TRUE]
    ELSE
      LET kids == st.branches[st.tree[current_node_id].path]
          st1 == [st EXCEPT !.branches = remove_key(@, st.tree[current_node_id].path)]
          r == assemble_children(st1, kids, 1, 0, ctx)
          t2 == IF r.dir_size > 0
                THEN [r.st.tree EXCEPT ![current_node_id].file_size = Some(r.dir_size)]
                ELSE r.st.tree
          t3 == append_all(t2, current_node_id, order_children(t2, ctx, kids), 1)
      IN IF r.st.panicked THEN r.st
         ELSE [r.st EXCEPT !.tree = t3]

\* The loop with no descent into directories at or below the display depth.
assemble_children_to_level(st, kids, i, dir_size, ctx) ==
    IF i > Len(kids) \/ st.panicked THEN [st |-> st, dir_size |-> dir_size]
    ELSE
      LET index == kids[i]
          st1 == IF st.tree[index].is_dir /\ st.tree[index].depth < level(ctx)
                 THEN assemble_tree(st, index, ctx)
                 ELSE st
      IN IF st1.panicked THEN [st |-> st1, dir_size |-> dir_size]
         ELSE assemble_children_to_level(st1, kids, i + 1,
                                         dir_size + child_bytes(st1.tree, index), ctx)

\* The loop over the pending children: recurse into directories, then add the
\* child's size to the running total.
assemble_children(st, kids, i, dir_size, ctx) ==
    IF i > Len(kids) \/ st.panicked THEN [st |-> st, dir_size |-> dir_size]
    ELSE
      LET index == kids[i]
          st1 == IF st.tree[index].is_dir THEN assemble_tree(st, index, ctx) ELSE st
      IN IF st1.panicked THEN [st |-> st1, dir_size |-> dir_size]
         ELSE assemble_children(st1, kids, i + 1, dir_size + child_bytes(st1.tree, index), ctx)

(* ---------------------------------------------------------------------- *)
(* Topology filters                                                       *)
(* ---------------------------------------------------------------------- *)

RECURSIVE remove_all(_, _, _)
remove_all(tree, ids, i) ==
    IF i > Len(ids) THEN tree
    ELSE remove_all(remove_subtree(tree, ids[i]), ids, i + 1)

\* A scan of the root's own children only.
to_prune_shallow(root_id, tree) ==
    SelectSeq(tree[root_id].children,
              LAMBDA id : tree[id].is_dir /\ Len(tree[id].children) = 0)

\* A scan that does not skip the root.
to_prune_with_root(root_id, tree) ==
    SelectSeq(descendants(tree, root_id),
              LAMBDA id : tree[id].is_dir /\ Len(tree[id].children) = 0
                            /\ ~tree[id].removed)

\* The scan of one pass: childless directories among the root's proper descendants.
to_prune(root_id, tree) ==
    SelectSeq(Tail(descendants(tree, root_id)),
              LAMBDA id : tree[id].is_dir /\ Len(children(tree, id)) = 0)

RECURSIVE prune_passes(_, _)
\* The trees on which the successive invocations of prune_directories run: the
\* last one is the tree on which the scan finds nothing.
prune_passes(root_id, tree) ==
    IF to_prune(root_id, tree) = <<>> THEN <<tree>>
    ELSE <<tree>> \o prune_passes(root_id, remove_all(tree, to_prune(root_id, tree), 1))

\* A single pass, without the repeat.
prune_once(root_id, tree) == remove_all(tree, to_prune(root_id, tree), 1)

RECURSIVE prune_directories(_, _)
prune_directories(root_id, tree) ==
    IF to_prune(root_id, tree) = <<>> THEN tree
    ELSE prune_directories(root_id, remove_all(tree, to_prune(root_id, tree), 1))

RECURSIVE detach_all(_, _, _)
detach_all(tree, ids, i) ==
    IF i > Len(ids) THEN tree
    ELSE detach_all(detach(tree, ids[i]), ids, i + 1)

\* A scan of the root's own children only.
to_detach_shallow(root, tree) ==
    SelectSeq(tree[root].children, LAMBDA id : ~tree[id].is_dir)

to_detach(root, tree) ==
    SelectSeq(Tail(descendants(tree, root)), LAMBDA id : ~tree[id].is_dir)

filter_directories(root, tree) == detach_all(tree, to_detach(root, tree), 1)

(* ---------------------------------------------------------------------- *)
(* State of Tree::traverse                                                *)
(* ---------------------------------------------------------------------- *)

VARIABLES
    ctx,        \* the run configuration
    fs,         \* the entries the walk will visit
    emitted,    \* entries the workers have sent so far
    chan,       \* the mpsc channel: events sent and not yet received
    consumed,   \* the entry events the Collector has received, in order
    rx_alive,   \* the receiver has not been dropped
    mpc,        \* position of the thread that called traverse
    cpc,        \* position of the Collector thread
    tree,       \* Collector: the arena
    branches,   \* Collector: the pending-children index
    inodes,     \* Collector: the hard-link set
    root_id,    \* Collector: Option<NodeId> of the root
    cres,       \* what the Collector thread returned
    result      \* what traverse returned to its caller

vars == <<ctx, fs, emitted, chan, consumed, rx_alive, mpc, cpc, tree, branches, inodes,
          root_id, cres, result>>

Done == [state |-> "Done"]

Ongoing(node) == [state |-> "Ongoing", node |-> node]

Init ==
    /\ ctx \in Contexts
    /\ fs \in Trees
    /\ emitted = {}
    /\ chan = <<>>
    /\ consumed = <<>>
    /\ rx_alive = TRUE
    /\ mpc = "visit"
    /\ cpc = "recv"
    /\ tree = <<>>
    /\ branches = <<>>
    /\ inodes = {}
    /\ root_id = None
    /\ cres = None
    /\ result = None

(* ---------------------------------------------------------------------- *)
(* Walker side                                                            *)
(* ---------------------------------------------------------------------- *)

\* A worker visits one entry and sends it.  The depth-0 entry goes first; a
\* send to a dropped receiver delivers nothing.
Visit ==
    /\ mpc = "visit"
    /\ \E node \in fs \ emitted :
         /\ node.depth = 0 \/ \E r \in emitted : r.depth = 0
         /\ emitted' = emitted \cup {node}
         /\ chan' = IF rx_alive THEN Append(chan, Ongoing(node)) ELSE chan
    /\ UNCHANGED <<ctx, fs, consumed, rx_alive, mpc, cpc, tree, branches, inodes, root_id,
                   cres, result>>

\* A walk that returns as soon as one worker has sent something.
visit_finished_early == emitted # {} \/ fs = {}

\* Every worker has finished: nothing is left to visit.
visit_finished == emitted = fs

\* walker.visit returns once every worker has finished.
VisitDone ==
    /\ mpc = "visit"
    /\ visit_finished
    /\ mpc' = "send"
    /\ UNCHANGED <<ctx, fs, consumed, emitted, chan, rx_alive, cpc, tree, branches, inodes,
                   root_id, cres, result>>

\* tx.send(TraversalState::Done).unwrap(): the send fails, and the unwrap
\* panics, when the receiver is gone.
SendDone ==
    /\ mpc = "send"
    /\ IF rx_alive
       THEN /\ chan' = Append(chan, Done)
            /\ mpc' = "join"
            /\ result' = result
       ELSE /\ chan' = chan
            /\ mpc' = "returned"
            /\ result' = Some("panic")
    /\ UNCHANGED <<ctx, fs, consumed, emitted, rx_alive, cpc, tree, branches, inodes,
                   root_id, cres>>

\* res.join().unwrap(): the Collector's value, or a panic if the Collector panicked.
Join ==
    /\ mpc = "join"
    /\ cpc = "returned"
    /\ mpc' = "returned"
    /\ result' = cres
    /\ UNCHANGED <<ctx, fs, consumed, emitted, chan, rx_alive, cpc, tree, branches, inodes,
                   root_id, cres>>

(* ---------------------------------------------------------------------- *)
(* Collector                                                              *)
(* ---------------------------------------------------------------------- *)

\* Registration of the root directory only.
register_dir_root_only(b, node) ==
    IF node.is_dir /\ node.depth = 0 /\ node.path \notin DOMAIN b
    THEN [p \in DOMAIN b \cup {node.path} |-> IF p = node.path THEN <<>> ELSE b[p]]
    ELSE b

\* branches.insert(path, vec![]) unless the key is present.
register_dir(b, node) ==
    IF node.is_dir /\ node.path \notin DOMAIN b
    THEN [p \in DOMAIN b \cup {node.path} |-> IF p = node.path THEN <<>> ELSE b[p]]
    ELSE b

\* The hard-link test: an entry with nlink > 1 whose inode is already in the set.
is_duplicate_link(seen, node) ==
    /\ IsSome(node.inode)
    /\ Unwrap(node.inode).nlink > 1
    /\ Unwrap(node.inode) \in seen

record_link(seen, node) ==
    IF IsSome(node.inode) /\ Unwrap(node.inode).nlink > 1
    THEN seen \cup {Unwrap(node.inode)}
    ELSE seen

\* Push node_id on the parent's list if the parent has one, else insert an
\* empty list for the parent.
add_to_parent(b, parent, node_id) ==
    IF parent \in DOMAIN b
    THEN [b EXCEPT ![parent] = Append(@, node_id)]
    ELSE [p \in DOMAIN b \cup {parent} |-> IF p = parent THEN <<>> ELSE b[p]]

\* One turn of the receive loop on an entry event.
RecvOngoing ==
    /\ cpc = "recv"
    /\ chan # <<>>
    /\ Head(chan).state = "Ongoing"
    /\ chan' = Tail(chan)
    /\ LET node == Head(chan).node
           b1 == register_dir(branches, node)
       IN IF node.is_dir /\ node.depth = 0
          THEN /\ tree' = new_node(tree, node)
               /\ root_id' = Some(Len(tree) + 1)
               /\ branches' = b1
               /\ UNCHANGED <<inodes, cpc, cres, rx_alive>>
          ELSE IF is_duplicate_link(inodes, node)
          THEN /\ branches' = b1
               /\ UNCHANGED <<tree, root_id, inodes, cpc, cres, rx_alive>>
          ELSE IF parent_path(node) = None
          THEN /\ branches' = b1
               /\ inodes' = record_link(inodes, node)
               /\ cpc' = "returned"
               /\ cres' = Some("ExpectedParent")
               /\ rx_alive' = FALSE
               /\ UNCHANGED <<tree, root_id>>
          ELSE /\ tree' = new_node(tree, node)
               /\ branches' = add_to_parent(b1, Unwrap(parent_path(node)), Len(tree) + 1)
               /\ inodes' = record_link(inodes, node)
               /\ UNCHANGED <<root_id, cpc, cres, rx_alive>>
    /\ consumed' = Append(consumed, Head(chan).node)
    /\ UNCHANGED <<ctx, fs, emitted, mpc, result>>

\* The wrong error variant for a missing root.
root_or_wrong_error(rid) == IF rid = None THEN Some("ExpectedParent") ELSE None

\* root_id.ok_or(Error::MissingRoot): the error the Collector returns once the
\* loop has ended, if any.
root_or_error(rid) == IF rid = None THEN Some("MissingRoot") ELSE None

\* The loop ends on the termination event.
RecvDone ==
    /\ cpc = "recv"
    /\ chan # <<>>
    /\ Head(chan).state = "Done"
    /\ chan' = Tail(chan)
    /\ IF IsSome(root_or_error(root_id))
       THEN /\ cpc' = "returned"
            /\ cres' = root_or_error(root_id)
            /\ rx_alive' = FALSE
       ELSE /\ cpc' = "assemble"
            /\ UNCHANGED <<cres, rx_alive>>
    /\ UNCHANGED <<ctx, fs, consumed, emitted, mpc, tree, branches, inodes, root_id, result>>

Assemble ==
    /\ cpc = "assemble"
    /\ LET st == assemble_tree([tree |-> tree, branches |-> branches, panicked |-> FALSE],
                               Unwrap(root_id), ctx)
       IN /\ tree' = st.tree
          /\ branches' = st.branches
          /\ IF st.panicked
             THEN /\ cpc' = "returned"
                  /\ cres' = Some("panic")
                  /\ rx_alive' = FALSE
             ELSE /\ cpc' = "prune"
                  /\ UNCHANGED <<cres, rx_alive>>
    /\ UNCHANGED <<ctx, fs, consumed, emitted, chan, mpc, inodes, root_id, result>>

Prune ==
    /\ cpc = "prune"
    /\ tree' = IF ctx.prune THEN prune_directories(Unwrap(root_id), tree) ELSE tree
    /\ cpc' = "filter"
    /\ UNCHANGED <<ctx, fs, consumed, emitted, chan, rx_alive, mpc, branches, inodes, root_id,
                   cres, result>>

Filter ==
    /\ cpc = "filter"
    /\ tree' = IF ctx.dirs_only THEN filter_directories(Unwrap(root_id), tree) ELSE tree
    /\ cpc' = "returned"
    /\ cres' = Some("Ok")
    /\ rx_alive' = FALSE
    /\ UNCHANGED <<ctx, fs, consumed, emitted, chan, mpc, branches, inodes, root_id, result>>

Next ==
    \/ Visit
    \/ VisitDone
    \/ SendDone
    \/ Join
    \/ RecvOngoing
    \/ RecvDone
    \/ Assemble
    \/ Prune
    \/ Filter

Spec == Init /\ [][Next]_vars

\* The steps of the calling thread and its workers, and of the Collector thread.
WalkerSide == Visit \/ VisitDone \/ SendDone \/ Join

Collector == RecvOngoing \/ RecvDone \/ Assemble \/ Prune \/ Filter

\* Both sides are operating-system threads: each keeps taking steps while it
\* can.  Runs to completion are followed on walks of at most MaxFairEntries entries.
FairInit == Init /\ Cardinality(fs) <= MaxFairEntries

FairSpec ==
    FairInit /\ [][Next]_vars /\ WF_vars(WalkerSide) /\ WF_vars(Collector)

(* ---------------------------------------------------------------------- *)
(* Properties                                                             *)
(* ---------------------------------------------------------------------- *)

Root == Unwrap(root_id)

\* The nodes reachable from root in tree t.
Reach(t) == Range(descendants(t, Root))

\* assemble_tree has returned and no topology filter has run yet.
Assembled == cpc = "prune"

IsUnder(dir, p) == Len(dir) < Len(p) /\ SubSeq(p, 1, Len(dir)) = dir

RECURSIVE SumBytes(_)
SumBytes(S) ==
    IF S = {} THEN 0
    ELSE LET n == CHOOSE m \in S : TRUE
         IN bytes_or_zero(n) + SumBytes(S \ {n})

Files(S) == { n \in S : ~n.is_dir }

NoHardLinks == \A n \in Files(fs) : Unwrap(n.inode).nlink = 1

\* The entry became an arena node (it was not dropped as a hard-link alias).
Inserted(n) == \E id \in DOMAIN tree : tree[id].path = n.path

\* C1: in a tree without hard links, whatever the arrival order after the
\* root, the file paths reachable from root after assembly are exactly the
\* file paths the Walker emitted.
C1_FilePathsPreserved ==
    (Assembled /\ NoHardLinks) =>
        { tree[id].path : id \in { j \in Reach(tree) : ~tree[j].is_dir } }
          = { n.path : n \in Files(emitted) }

\* C2: after assembly every directory node's aggregate is the sum of the sizes
\* of the inserted file entries emitted under its path, and is unset exactly
\* when that sum is zero.
C2_AggregateIsSumOfDescendants ==
    Assembled =>
        \A d \in DOMAIN tree :
            tree[d].is_dir =>
                LET total == SumBytes({ n \in Files(emitted) :
                                          IsUnder(tree[d].path, n.path) /\ Inserted(n) })
                IN tree[d].file_size = IF total = 0 THEN None ELSE Some(total)

LinkedInodes == { Unwrap(n.inode) : n \in { m \in Files(emitted) : Unwrap(m.inode).nlink > 1 } }

\* One file entry per inode among the emitted files.
OnePerInode ==
    { n \in Files(emitted) :
        n = CHOOSE m \in Files(emitted) : m.inode = n.inode }

\* C3: of the aliases of a hard-linked inode exactly one is a node of the
\* assembled tree, the others never enter the arena, and the root's aggregate
\* counts the inode's size once.
C3_OneNodePerHardLink ==
    (Assembled /\ LinkedInodes # {}) =>
        /\ \A i \in LinkedInodes :
             /\ Cardinality({ id \in Reach(tree) : tree[id].inode = Some(i) }) = 1
             /\ Cardinality({ id \in DOMAIN tree : tree[id].inode = Some(i) }) = 1
        /\ bytes_or_zero(tree[Root]) = SumBytes(OnePerInode)

Pos(s, x) == CHOOSE i \in 1..Len(s) : s[i] = x

ChildBytes(t, d) == SumBytes({ [id |-> c, file_size |-> t[c].file_size] : c \in Range(t[d].children) })

\* C4: the Assemble step leaves every directory's children as its pending
\* list, sorted by the comparator on the nodes' final state (directories carry
\* their aggregate), with equal siblings in arrival order; unsorted when no
\* comparator is configured.
C4_ChildrenSortedStable ==
    [][(cpc = "assemble" /\ cpc' = "prune") =>
         \A d \in Reach(tree') :
            tree'[d].is_dir =>
              LET pend == branches[tree'[d].path]
                  kids == tree'[d].children
              IN /\ Len(kids) = Len(pend)
                 /\ Range(kids) = Range(pend)
                 /\ bytes_or_zero(tree'[d]) = ChildBytes(tree', d)
                 /\ IF ctx.sort = "none" THEN kids = pend
                    ELSE \A i, j \in 1..Len(kids) :
                           i < j =>
                             /\ func(tree'[kids[i]], tree'[kids[j]]) <= 0
                             /\ func(tree'[kids[i]], tree'[kids[j]]) = 0
                                  => Pos(pend, kids[i]) < Pos(pend, kids[j])
      ]_vars

\* A sorted root whose sub-directory ties with a file that arrived after it.
C4_Witness ==
    /\ Assembled
    /\ ctx.sort = "size"
    /\ \E i, j \in 1..Len(tree[Root].children) :
         LET a == tree[Root].children[i]
             b == tree[Root].children[j]
         IN /\ i < j /\ a < b
            /\ tree[a].is_dir /\ ~tree[b].is_dir
            /\ IsSome(tree[a].file_size)
            /\ tree[a].file_size = tree[b].file_size

NoChildlessDir(t) ==
    \A d \in Reach(t) : (t[d].is_dir /\ d # Root) => t[d].children # <<>>

Returned(v) == mpc = "returned" /\ result = Some(v)

\* C5 as stated: with pruning on, the tree traverse returns has no childless
\* non-root directory, whatever the other flags.
C5_NoChildlessDirReturned ==
    (Returned("Ok") /\ ctx.prune) => NoChildlessDir(tree)

\* C5 amended: with pruning on, the tree has no childless non-root directory
\* right after prune_directories, and the returned tree has none when the
\* directories-only filter is off.
C5_NoChildlessDirAfterPrune ==
    /\ (cpc = "filter" /\ ctx.prune) => NoChildlessDir(tree)
    /\ (Returned("Ok") /\ ctx.prune /\ ~ctx.dirs_only) => NoChildlessDir(tree)

\* Pruning removed a directory and a non-root directory survived it.
C5_Witness ==
    /\ Returned("Ok") /\ ctx.prune /\ ~ctx.dirs_only
    /\ \E id \in DOMAIN tree : tree[id].removed
    /\ \E d \in Reach(tree) : d # Root /\ tree[d].is_dir

\* C6: prune_directories applied to its own result changes nothing, for every
\* assembled tree, and the tree left by the pruning step still has its root.
C6_PruneIdempotentKeepsRoot ==
    /\ Assembled =>
         LET once == prune_directories(Root, tree)
         IN /\ prune_directories(Root, once) = once
            /\ ~once[Root].removed
    /\ (cpc = "filter" /\ ctx.prune) =>
         /\ prune_directories(Root, tree) = tree
         /\ ~tree[Root].removed

\* Pruning emptied the root: every directory below it was removed.
C6_Witness ==
    /\ cpc = "filter" /\ ctx.prune
    /\ tree[Root].children = <<>>
    /\ Cardinality({ id \in DOMAIN tree : tree[id].removed }) >= 2

\* C7: the filter_directories step leaves only directories reachable from
\* root and keeps every directory that was reachable before it.
C7_FilterKeepsExactlyDirs ==
    [][(cpc = "filter" /\ ctx.dirs_only) =>
         /\ \A id \in Reach(tree') : tree'[id].is_dir
         /\ \A id \in Reach(tree) : tree[id].is_dir => id \in Reach(tree')
      ]_vars

\* A returned directories-only tree in which a nested directory lost its files.
C7_Witness ==
    /\ Returned("Ok") /\ ctx.dirs_only
    /\ \E d \in Reach(tree) :
         /\ tree[d].depth = 1
         /\ IsSome(tree[d].file_size)
         /\ \A c \in Range(tree[d].children) : tree[c].is_dir

\* C8: across the pruning step and the filtering step every node still
\* reachable keeps its size, and surviving siblings keep their relative order.
C8_FiltersKeepSizeAndOrder ==
    [][(cpc \in {"prune", "filter"}) =>
         /\ \A id \in Reach(tree') :
              /\ id \in Reach(tree)
              /\ tree'[id].file_size = tree[id].file_size
         /\ \A a, b \in Reach(tree') :
              (a # b /\ a # Root /\ b # Root /\ tree'[a].parent = tree'[b].parent) =>
                 /\ tree[a].parent = tree'[a].parent
                 /\ tree[b].parent = tree'[a].parent
                 /\ LET p == Unwrap(tree'[a].parent)
                    IN (Pos(tree[p].children, a) < Pos(tree[p].children, b))
                         <=> (Pos(tree'[p].children, a) < Pos(tree'[p].children, b))
      ]_vars

\* A returned tree whose root has two surviving children after a filter took
\* an earlier-arrived node out of the root's child list.
C8_Witness ==
    /\ Returned("Ok")
    /\ ctx.prune \/ ctx.dirs_only
    /\ Len(tree[Root].children) >= 2
    /\ \E id \in DOMAIN tree :
         /\ tree[id].depth = 1
         /\ id \notin Range(tree[Root].children)
         /\ id < tree[Root].children[Len(tree[Root].children)]

DoneConsumed ==
    /\ mpc \in {"join", "returned"}
    /\ result # Some("panic")
    /\ \A i \in 1..Len(chan) : chan[i] # Done

NeverLinked == \A id \in DOMAIN tree : tree[id].parent = None /\ tree[id].children = <<>>

\* C9: once the termination event is consumed with no depth-0 directory event
\* among the consumed ones, the Collector has returned MissingRoot without
\* assembling anything, and that is what traverse returns.
C9_MissingRoot ==
    (DoneConsumed /\ ~\E n \in emitted : n.is_dir /\ n.depth = 0) =>
        /\ cpc = "returned"
        /\ cres = Some("MissingRoot")
        /\ NeverLinked
        /\ \A id \in DOMAIN tree : ~tree[id].removed
        /\ mpc = "returned" => result = Some("MissingRoot")

\* traverse returned MissingRoot for a walk started on a regular file.
C9_Witness ==
    /\ Returned("MissingRoot")
    /\ emitted = {RootFile}
    /\ Len(tree) = 1

\* C10: a fatal condition raised by the Collector is what traverse returns, and
\* the Walker side never fails on a stopped Collector.
C10_FatalReachesCaller ==
    /\ result # Some("panic")
    /\ (mpc = "returned" /\ cres \in {Some("ExpectedParent"), Some("MissingRoot")})
         => result = cres

ReachableFilesUnder(t, d) ==
    { [id |-> f, file_size |-> t[f].file_size] :
        f \in { g \in Reach(t) : ~t[g].is_dir /\ IsUnder(t[d].path, t[g].path) } }

\* What the Collector's three post-walk steps make of the current state under
\* configuration c.
StepUnder(c) ==
    IF cpc = "assemble"
    THEN assemble_tree([tree |-> tree, branches |-> branches, panicked |-> FALSE], Root, c).tree
    ELSE IF cpc = "prune"
    THEN (IF c.prune THEN prune_directories(Root, tree) ELSE tree)
    ELSE (IF c.dirs_only THEN filter_directories(Root, tree) ELSE tree)

\* C11: the assembly, pruning and filtering steps produce the tree they would
\* produce under any other maximum display depth, and after assembly every
\* directory within the display depth carries the sizes of all its reachable
\* files, however deep.
C11_LevelDoesNotInfluenceTree ==
    /\ [](Assembled =>
            \A d \in Reach(tree) :
               (tree[d].is_dir /\ tree[d].depth <= level(ctx)) =>
                  bytes_or_zero(tree[d]) = SumBytes(ReachableFilesUnder(tree, d)))
    /\ [][(cpc \in {"assemble", "prune", "filter"}) =>
            \A l \in Levels : tree' = StepUnder([ctx EXCEPT !.level = l])]_vars

\* A tree returned under display depth 1 whose root aggregate counts a file at depth 2.
C11_Witness ==
    /\ Returned("Ok")
    /\ ctx.level = Some(1)
    /\ \E f \in Reach(tree) :
         /\ tree[f].depth = 2 /\ ~tree[f].is_dir
         /\ bytes_or_zero(tree[f]) > 0
         /\ bytes_or_zero(tree[Root]) >= bytes_or_zero(tree[f])

\* C12: while the Collector is receiving, every node inserted for a non-root
\* entry is a member of the pending-children list of its parent path, whether
\* or not the parent directory's own event has been consumed yet.
C12_HandleOnParentList ==
    cpc = "recv" =>
        \A id \in DOMAIN tree :
            tree[id].depth > 0 =>
                /\ Unwrap(parent_path(tree[id])) \in DOMAIN branches
                /\ id \in Range(branches[Unwrap(parent_path(tree[id]))])

DoneCount(c) == Cardinality({ i \in 1..Len(c) : c[i] = Done })

AssemblyStarted == cpc \in {"assemble", "prune", "filter"} \/ cres = Some("Ok")

\* C13: the termination event is put on the channel once, by the calling
\* thread after every worker has finished, behind every entry event; assembly
\* starts only after it is consumed, with every emitted entry event received
\* exactly once and nothing left in the channel.
C13_DoneOnceAfterAllEvents ==
    /\ [](/\ DoneCount(chan) <= 1
          /\ DoneCount(chan) = 1 =>
               /\ chan[Len(chan)] = Done
               /\ emitted = fs
               /\ mpc \in {"join", "returned"}
          /\ mpc \in {"visit", "send"} =>
               /\ DoneCount(chan) = 0
               /\ ~AssemblyStarted
          /\ AssemblyStarted =>
               /\ chan = <<>>
               /\ emitted = fs
               /\ Range(consumed) = fs
               /\ Len(consumed) = Cardinality(fs))
    /\ [][/\ DoneCount(chan') > DoneCount(chan) =>
               (mpc = "send" /\ emitted = fs /\ mpc' = "join")
          /\ mpc \in {"join", "returned"} => mpc' \in {"join", "returned"}
         ]_vars

\* Assembly is about to start on a walk of four entries, one of them a dropped
\* hard-link alias.
C13_Witness ==
    /\ cpc = "assemble"
    /\ Len(consumed) = 4
    /\ Len(tree) = 3

NoPathTwice ==
    \A i, j \in 1..Len(consumed) : consumed[i].path = consumed[j].path => i = j

RootFirst == consumed # <<>> => consumed[1].depth = 0

\* C14: with the root first and no path sent twice, assemble_tree finds the
\* pending-children entry of every directory it visits: neither the assembly
\* about to run nor any assembly that ran hit a missing key.
C14_RemoveFindsKey ==
    (NoPathTwice /\ RootFirst) =>
        /\ cres # Some("panic")
        /\ cpc = "assemble" =>
             ~assemble_tree([tree |-> tree, branches |-> branches, panicked |-> FALSE],
                            Root, ctx).panicked

\* An assembled tree with a childless sub-directory, whose list its own event
\* created, and a sub-directory whose list was created by a child that came first.
C14_Witness ==
    /\ Assembled
    /\ \E d \in Reach(tree) : d # Root /\ tree[d].is_dir /\ tree[d].children = <<>>
    /\ \E d \in Reach(tree) :
         /\ d # Root /\ tree[d].is_dir
         /\ \E c \in DOMAIN tree : c < d /\ parent_path(tree[c]) = Some(tree[d].path)

\* C15: after assembly every non-root arena node has one parent, the directory
\* at its parent path, is listed by that directory alone, and is reachable from
\* the root.
C15_SingleConnectedTree ==
    Assembled =>
        \A id \in DOMAIN tree :
            id # Root =>
                /\ IsSome(tree[id].parent)
                /\ tree[Unwrap(tree[id].parent)].is_dir
                /\ Some(tree[Unwrap(tree[id].parent)].path) = parent_path(tree[id])
                /\ { d \in DOMAIN tree : id \in Range(tree[d].children) }
                     = { Unwrap(tree[id].parent) }
                /\ id \in Reach(tree)

\* C16: the pruning step runs finitely many passes; every pass but the last
\* takes at least one node out of the tree reachable from root, the passes
\* that remove something are no more than the non-root directories, and the
\* last pass is the first whose tree has no childless non-root directory.
C16_PruneTerminates ==
    [][(cpc = "prune" /\ ctx.prune) =>
         LET tr == prune_passes(Root, tree)
             n == Len(tr)
         IN /\ tree' = tr[n]
            /\ \A i \in 1..(n - 1) :
                 /\ Reach(tr[i + 1]) \subseteq Reach(tr[i])
                 /\ Reach(tr[i + 1]) # Reach(tr[i])
                 /\ ~NoChildlessDir(tr[i])
            /\ n - 1 <= Cardinality({ d \in Reach(tree) : d # Root /\ tree[d].is_dir })
            /\ NoChildlessDir(tr[n])
      ]_vars

\* Pruning took two removing passes: a directory at depth 2, then its parent.
C16_Witness ==
    /\ cpc = "filter" /\ ctx.prune
    /\ \E d, e \in DOMAIN tree :
         /\ tree[d].removed /\ tree[e].removed
         /\ tree[d].depth = 1 /\ tree[e].depth = 2
         /\ parent_path(tree[e]) = Some(tree[d].path)
         /\ e > d

\* C18: once assemble_tree has returned from the root, the pending-children
\* index has no entry left.
C18_BranchesEmptied ==
    Assembled => DOMAIN branches = {}

\* C17: under fair scheduling traverse eventually returns a tree or a typed
\* failure, the termination event having been sent.
C17_EventuallyReturns ==
    <>(/\ mpc = "returned"
       /\ result \in {Some("Ok"), Some("MissingRoot"), Some("ExpectedParent")}
       /\ emitted = fs)

====
